---------------------------- MODULE Spec2Model ----------------------------
(***************************************************************************)
(* Model of app.py (iampreetdave/find-rank): extraction of mark records    *)
(* from the text lines of PDF mark sheets, the batch run over the uploaded *)
(* files, the two derived views (cumulative rankings, exam-wise pivot) and *)
(* the Streamlit script main() with its session state.                     *)
(*                                                                         *)
(* A text line is a sequence of whitespace-separated tokens [k, v]:        *)
(*   "enr"  the 12-digit enrollment number v, matching 2[34]14[0-9]{8}     *)
(*   "num"  a run of digits with value v (1-2 digits iff v <= 99)          *)
(*   "dept" the marker "CSE(AIML) D1" (or D2)                              *)
(*   "word" a mixed-case word number v, not starting with three capitals   *)
(*   "caps" a word number v that starts with three capital letters         *)
(*   "ab"   the token "AB"                                                 *)
(***************************************************************************)
EXTENDS Integers, Sequences, FiniteSets, TLC

\* uploaded       the files held by st.file_uploader, each [name, pages]
\* session_state  st.session_state: processed (False while the attribute is not
\*                set) and all_data
\* combined_df    the frame the last script run got from process_multiple_pdfs
\* shown          what the last script run displayed under "Analysis Results"
\* last           the kind of the last script run: "none", "upload", "process"
VARIABLES uploaded, session_state, combined_df, shown, last

vars == <<uploaded, session_state, combined_df, shown, last>>

-----------------------------------------------------------------------------
(* Tokens *)

Enr(e) == [k |-> "enr", v |-> e]
Num(n) == [k |-> "num", v |-> n]
Dept == [k |-> "dept", v |-> 0]
Word(w) == [k |-> "word", v |-> w]
Caps(w) == [k |-> "caps", v |-> w]
Ab == [k |-> "ab", v |-> 0]

NoMatch == <<>>

Min(S) == CHOOSE x \in S : \A y \in S : x <= y

Abs(x) == IF x < 0 THEN -x ELSE x

-----------------------------------------------------------------------------
(* The regular expressions of extract_marks_from_pdf, on token lines *)

\* re.search(r'\b(2[34]14[0-9]{8})\b', line): the first enrollment number of the
\* line, as <<e>>, or NoMatch.
EnrollmentMatch(line) ==
  LET P == {p \in 1..Len(line) : line[p].k = "enr"}
  IN IF P = {} THEN NoMatch ELSE <<line[Min(P)].v>>

\* \d{1,2} between word boundaries: a number token of one or two digits.
SmallNum(tok) == tok.k = "num" /\ tok.v >= 0 /\ tok.v <= 99

\* [A-Z]{3} after whitespace: a token that starts with three capital letters.
Upper3(tok) == tok.k = "caps"

\* The name Python gives when name_match is None.
Unknown == <<Word(0)>>

\* re.search(r'CSE\(AIML\)\s+D[12]\s+(.+?)\s+[A-Z]{3}', line): at the first marker
\* that is followed by at least one token and then a token starting with three
\* capitals, the (lazy) text between the marker and the first such token.
NameMatch(line) ==
  LET Q(p) == {q \in (p + 2)..Len(line) : Upper3(line[q])}
      P == {p \in 1..Len(line) : line[p].k = "dept" /\ Q(p) # {}}
  IN IF P = {} THEN Unknown
     ELSE SubSeq(line, Min(P) + 1, Min(Q(Min(P))) - 1)

\* re.search(r'\b(\d{1,2})\s+(\d{1,2})\s+(\d{1,2})\b', check_line): the leftmost
\* three consecutive one- or two-digit numbers, as <<a, b, t>>, or NoMatch.
MarksMatch(line) ==
  LET P == {p \in 1..(Len(line) - 2) :
              SmallNum(line[p]) /\ SmallNum(line[p + 1]) /\ SmallNum(line[p + 2])}
  IN IF P = {} THEN NoMatch
     ELSE <<line[Min(P)].v, line[Min(P) + 1].v, line[Min(P) + 2].v>>

\* 'AB' in check_line
HasAB(line) == \E p \in 1..Len(line) : line[p].k = "ab"

-----------------------------------------------------------------------------
(* extract_marks_from_pdf *)

WFive == 4 + 1

\* range(4): the offsets of the lines checked for marks.
W == 4

ToleranceNoAbs(a, b, t) == (a + b) - t <= 1

\* abs((section_a + section_b) - total) <= 1
Tolerance(a, b, t) == Abs((a + b) - t) <= 1

\* A record built from a marks triple has no 'Status' key (NaN in the frame);
\* the model writes "Present" for it.
PresentRecord(e, name, m, src) ==
  [enr |-> e, name |-> name, a |-> m[1], b |-> m[2], total |-> m[3],
   src |-> src, status |-> "Present"]

AbsentRecord(e, name, src) ==
  [enr |-> e, name |-> name, a |-> 0, b |-> 0, total |-> 0,
   src |-> src, status |-> "Absent"]

RECURSIVE WindowSearchFirstFound(_, _, _)
WindowSearchFirstFound(lines, i, offset) ==
  IF offset >= W THEN NoMatch
  ELSE IF i + offset <= Len(lines) /\ MarksMatch(lines[i + offset]) # NoMatch
       THEN LET m == MarksMatch(lines[i + offset])
            IN IF Tolerance(m[1], m[2], m[3]) THEN m ELSE NoMatch
       ELSE WindowSearchFirstFound(lines, i, offset + 1)

\* for offset in range(4): the triple of the first line i+offset whose match
\* passes the tolerance check (the break is inside that check), or NoMatch.
\* Lines are numbered from 1 here: Python's i + offset < len(lines).
RECURSIVE WindowSearch(_, _, _)
WindowSearch(lines, i, offset) ==
  IF offset >= W THEN NoMatch
  ELSE IF i + offset <= Len(lines) /\ MarksMatch(lines[i + offset]) # NoMatch
       THEN LET m == MarksMatch(lines[i + offset])
            IN IF Tolerance(m[1], m[2], m[3]) THEN m
               ELSE WindowSearch(lines, i, offset + 1)
       ELSE WindowSearch(lines, i, offset + 1)

ExtractAtAlwaysAbsent(lines, i, src) ==
  LET em == EnrollmentMatch(lines[i])
  IN IF em = NoMatch THEN <<>>
     ELSE LET name == NameMatch(lines[i])
              m == WindowSearch(lines, i, 0)
          IN (IF m # NoMatch THEN <<PresentRecord(em[1], name, m, src)>> ELSE <<>>)
             \o (IF i + 1 <= Len(lines) /\ HasAB(lines[i + 1])
                 THEN <<AbsentRecord(em[1], name, src)>> ELSE <<>>)

\* The body of `for i, line in enumerate(lines)`: the records appended for line i.
ExtractAt(lines, i, src) ==
  LET em == EnrollmentMatch(lines[i])
  IN IF em = NoMatch THEN <<>>
     ELSE LET name == NameMatch(lines[i])
              m == WindowSearch(lines, i, 0)
          IN IF m # NoMatch THEN <<PresentRecord(em[1], name, m, src)>>
             ELSE IF i + 1 <= Len(lines) /\ HasAB(lines[i + 1])
                  THEN <<AbsentRecord(em[1], name, src)>>
                  ELSE <<>>

RECURSIVE ExtractLines(_, _, _)
ExtractLines(lines, i, src) ==
  IF i > Len(lines) THEN <<>>
  ELSE ExtractAt(lines, i, src) \o ExtractLines(lines, i + 1, src)

\* A page is [kind, lines]: "text" (extract_text gives lines), "blank"
\* (extract_text gives None or ''), "error" (reading the page raises).
TextPage(lines) == [kind |-> "text", lines |-> lines]
BlankPage == [kind |-> "blank", lines |-> <<>>]
ErrorPage == [kind |-> "error", lines |-> <<>>]

RECURSIVE ExtractPagesKeepPartial(_, _, _)
ExtractPagesKeepPartial(pdf_file, p, data) ==
  IF p > Len(pdf_file.pages) THEN data
  ELSE IF pdf_file.pages[p].kind = "error" THEN data
  ELSE IF pdf_file.pages[p].kind = "blank"
       THEN ExtractPagesKeepPartial(pdf_file, p + 1, data)
  ELSE ExtractPagesKeepPartial(pdf_file, p + 1,
         data \o ExtractLines(pdf_file.pages[p].lines, 1, pdf_file.name))

\* for page_num, page in enumerate(pdf.pages), inside try/except: an exception
\* returns an empty frame, whatever `data` held.
RECURSIVE ExtractPages(_, _, _)
ExtractPages(pdf_file, p, data) ==
  IF p > Len(pdf_file.pages) THEN data
  ELSE IF pdf_file.pages[p].kind = "error" THEN <<>>
  ELSE IF pdf_file.pages[p].kind = "blank" THEN ExtractPages(pdf_file, p + 1, data)
  ELSE ExtractPages(pdf_file, p + 1,
         data \o ExtractLines(pdf_file.pages[p].lines, 1, pdf_file.name))

extract_marks_from_pdf(pdf_file) == ExtractPages(pdf_file, 1, <<>>)

-----------------------------------------------------------------------------
(* process_multiple_pdfs *)

\* for i, uploaded_file in enumerate(uploaded_files): the frames that are not
\* empty are appended to all_data, and pd.concat joins them in that order.
RECURSIVE ProcessFiles(_, _)
ProcessFiles(files, i) ==
  IF i > Len(files) THEN <<>>
  ELSE LET df == extract_marks_from_pdf(files[i])
       IN (IF df # <<>> THEN df ELSE <<>>) \o ProcessFiles(files, i + 1)

process_multiple_pdfs(uploaded_files) == ProcessFiles(uploaded_files, 1)

-----------------------------------------------------------------------------
(* Helpers for the frames *)

\* Series.sum()
RECURSIVE SumSeq(_)
SumSeq(seq) ==
  IF seq = <<>> THEN 0 ELSE Head(seq) + SumSeq(Tail(seq))

RECURSIVE SortedSeq(_)
SortedSeq(S) ==
  IF S = {} THEN <<>> ELSE <<Min(S)>> \o SortedSeq(S \ {Min(S)})

\* Series.unique(): the distinct values in order of first appearance.
RECURSIVE Unique(_)
Unique(seq) ==
  IF seq = <<>> THEN <<>>
  ELSE LET rest == Unique(SubSeq(seq, 1, Len(seq) - 1))
           x == seq[Len(seq)]
       IN IF \E k \in 1..Len(rest) : rest[k] = x THEN rest ELSE Append(rest, x)

RECURSIVE InsertDesc(_, _)
InsertDesc(sorted, x) ==
  IF sorted = <<>> THEN <<x>>
  ELSE IF x > Head(sorted) THEN <<x>> \o sorted
  ELSE <<Head(sorted)>> \o InsertDesc(Tail(sorted), x)

RECURSIVE SortDesc(_)
SortDesc(vals) ==
  IF vals = <<>> THEN <<>>
  ELSE InsertDesc(SortDesc(SubSeq(vals, 1, Len(vals) - 1)), vals[Len(vals)])

RankDense(vals, i) ==
  Cardinality({vals[j] : j \in {j \in 1..Len(vals) : vals[j] > vals[i]}}) + 1

\* Series.rank(method='min', ascending=False).astype(int): the values are put in
\* descending order and each gets the first position its value holds there.
Rank(vals, i) ==
  LET sorted == SortDesc(vals)
  IN Min({k \in 1..Len(sorted) : sorted[k] = vals[i]})

RECURSIVE InsertByRank(_, _)
InsertByRank(sorted, row) ==
  IF sorted = <<>> THEN <<row>>
  ELSE IF row.rank < Head(sorted).rank THEN <<row>> \o sorted
  ELSE <<Head(sorted)>> \o InsertByRank(Tail(sorted), row)

\* sort_values('Rank').reset_index(drop=True); rows of equal rank are kept in
\* their order (no claim depends on the order within a rank).
RECURSIVE SortByRank(_)
SortByRank(rows) ==
  IF rows = <<>> THEN <<>>
  ELSE InsertByRank(SortByRank(SubSeq(rows, 1, Len(rows) - 1)), rows[Len(rows)])

\* round(2) of num/den, in hundredths: numpy rounds half to even.
Round2(num, den) ==
  LET q == (100 * num) \div den
      r == (100 * num) % den
  IN IF 2 * r < den THEN q
     ELSE IF 2 * r > den THEN q + 1
     ELSE IF q % 2 = 0 THEN q ELSE q + 1

-----------------------------------------------------------------------------
(* calculate_cumulative_rankings *)

Totals(recs) == [k \in 1..Len(recs) |-> recs[k].total]

GroupOf(data, e) == SelectSeq(data, LAMBDA r : r.enr = e)

SourceFiles(recs) == Unique([k \in 1..Len(recs) |-> recs[k].src])

ExamCountRecords(recs) == Len(recs)

\* 'Source File': lambda x: list(x.unique()), then ['Source Files'].apply(len)
ExamCount(recs) == Len(SourceFiles(recs))

\* groupby('Enrollment No').agg(...): one row per enrollment number, in the order
\* of the numbers; 'Average per Exam' is kept in hundredths.
CumulativeGroups(data) ==
  LET ids == SortedSeq({data[k].enr : k \in 1..Len(data)})
  IN [g \in 1..Len(ids) |->
        LET recs == GroupOf(data, ids[g])
        IN [enr |-> ids[g],
            name |-> recs[1].name,
            cumulative_total |-> SumSeq(Totals(recs)),
            total_section_a |-> SumSeq([k \in 1..Len(recs) |-> recs[k].a]),
            total_section_b |-> SumSeq([k \in 1..Len(recs) |-> recs[k].b]),
            source_files |-> SourceFiles(recs),
            exam_count |-> ExamCount(recs),
            average_per_exam |-> Round2(SumSeq(Totals(recs)), ExamCount(recs))]]

calculate_cumulative_rankings(data) ==
  IF data = <<>> THEN <<>>
  ELSE LET groups == CumulativeGroups(data)
           totals == [g \in 1..Len(groups) |-> groups[g].cumulative_total]
       IN SortByRank([g \in 1..Len(groups) |->
            [enr |-> groups[g].enr,
             name |-> groups[g].name,
             cumulative_total |-> groups[g].cumulative_total,
             total_section_a |-> groups[g].total_section_a,
             total_section_b |-> groups[g].total_section_b,
             source_files |-> groups[g].source_files,
             exam_count |-> groups[g].exam_count,
             average_per_exam |-> groups[g].average_per_exam,
             rank |-> Rank(totals, g)]])

-----------------------------------------------------------------------------
(* create_exam_wise_view *)

\* A cell of the pivot that no record fills (NaN).
NaN == -1

\* The order of two names in the index: the words are numbered in collation
\* order, and a name that is a prefix of another sorts first.
NameLess(n1, n2) ==
  \E k \in 1..(Len(n1) + 1) :
    /\ \A j \in 1..(k - 1) : j <= Len(n2) /\ n1[j].v = n2[j].v
    /\ k <= Len(n2)
    /\ (k > Len(n1) \/ n1[k].v < n2[k].v)

KeyLess(k1, k2) == k1[1] < k2[1] \/ (k1[1] = k2[1] /\ NameLess(k1[2], k2[2]))

RECURSIVE SortedKeys(_)
SortedKeys(K) ==
  IF K = {} THEN <<>>
  ELSE LET m == CHOOSE x \in K : \A y \in K : y = x \/ KeyLess(x, y)
       IN <<m>> \o SortedKeys(K \ {m})

\* aggfunc='first' of 'Total Marks' over the records of one (Enrollment No, Name)
\* in one 'Source File'; NaN when there is none.
PivotCell(data, key, src) ==
  LET recs == SelectSeq(data, LAMBDA r : r.enr = key[1] /\ r.name = key[2] /\ r.src = src)
  IN IF recs = <<>> THEN NaN ELSE recs[1].total

RECURSIVE SumCells(_, _)
SumCells(cells, cols) ==
  IF cols = {} THEN 0
  ELSE LET c == CHOOSE x \in cols : TRUE
       IN cells[c] + SumCells(cells, cols \ {c})

\* pivot_data[exam_columns].sum(axis=1): NaN cells are skipped.
RowTotal(cells) == SumCells(cells, {c \in DOMAIN cells : cells[c] # NaN})

\* One row per (Enrollment No, Name) in index order, one cell per 'Source File'
\* (`exams`: file name -> total or NaN), then the row totals and the ranks.
create_exam_wise_view(data) ==
  IF data = <<>> THEN <<>>
  ELSE LET keys == SortedKeys({<<data[k].enr, data[k].name>> : k \in 1..Len(data)})
           exam_columns == {data[k].src : k \in 1..Len(data)}
           cells(g) == [c \in exam_columns |-> PivotCell(data, keys[g], c)]
           totals == [g \in 1..Len(keys) |-> RowTotal(cells(g))]
       IN SortByRank([g \in 1..Len(keys) |->
            [enr |-> keys[g][1],
             name |-> keys[g][2],
             exams |-> cells(g),
             cumulative_total |-> totals[g],
             rank |-> Rank(totals, g)]])

-----------------------------------------------------------------------------
(* main: one script run per user event *)

NoDisplay == [visible |-> FALSE, records |-> <<>>, rankings |-> <<>>, exam_wise |-> <<>>]

\* if hasattr(st.session_state, 'processed') and st.session_state.processed: the
\* rankings, the exam-wise table and the raw records of st.session_state.all_data.
Display(data) ==
  [visible |-> TRUE,
   records |-> data,
   rankings |-> calculate_cumulative_rankings(data),
   exam_wise |-> create_exam_wise_view(data)]

\* if not all_data.empty: st.session_state.all_data = all_data; processed = True
SessionAfter(df, ss) ==
  IF df # <<>> THEN [processed |-> TRUE, all_data |-> df] ELSE ss

\* The user changes the files in st.file_uploader: the script runs without a
\* click, and shows the session's results when there are files and a processed
\* session.
Upload(files) ==
  /\ files # uploaded
  /\ uploaded' = files
  /\ combined_df' = <<>>
  /\ session_state' = session_state
  /\ shown' = IF files # <<>> /\ session_state.processed
              THEN Display(session_state.all_data) ELSE NoDisplay
  /\ last' = "upload"

\* The user clicks "Process Files & Calculate Rankings" (the button exists only
\* while files are uploaded): process_multiple_pdfs, the session update and the
\* display of the same script run.
Process ==
  /\ uploaded # <<>>
  /\ LET df == process_multiple_pdfs(uploaded)
         ss == SessionAfter(df, session_state)
     IN /\ combined_df' = df
        /\ session_state' = ss
        /\ shown' = IF ss.processed THEN Display(ss.all_data) ELSE NoDisplay
  /\ last' = "process"
  /\ UNCHANGED uploaded

-----------------------------------------------------------------------------
(* Inputs and specifications *)

\* The most files uploaded at once, and the most lines of a page in SpecExtract.
MaxDocs == 3
MaxLines == 5

SeqsUpTo(S, n) == UNION {[1..k -> S] : k \in 0..n}

\* The k-th uploaded file is named k (the names of the files are distinct).
Files(docs) == [k \in 1..Len(docs) |-> [name |-> k, pages |-> docs[k]]]

Start(files) ==
  /\ uploaded = files
  /\ session_state = [processed |-> FALSE, all_data |-> <<>>]
  /\ combined_df = <<>>
  /\ shown = NoDisplay
  /\ last = "none"

\* Lines of a mark sheet: a student with name and marks (total 2 or 1), students
\* without a name marker, a student line without marks, the absence line.
LineE1 == <<Enr(1), Dept, Word(1), Caps(1), Num(1), Num(1), Num(2)>>
LineE1b == <<Enr(1), Dept, Word(1), Caps(1), Num(0), Num(1), Num(1)>>
LineE1u == <<Enr(1), Num(1), Num(1), Num(2)>>
LineE2 == <<Enr(2), Num(1), Num(1), Num(2)>>
LineE2n == <<Enr(2)>>
LineE3 == <<Enr(3), Num(0), Num(1), Num(1)>>
LineAB == <<Ab, Ab, Ab>>

\* SpecExtract: one file of one page, whose lines are any sequence of these:
\* identifier lines with and without marks, marks off by 1 (accepted), by -2 and
\* by 2 (rejected), four numbers whose leftmost three are off by 2 and whose last
\* three add up, the absence line, a line of text.
LinePool ==
  { <<Enr(1)>>,
    <<Enr(2), Num(1), Num(1), Num(2)>>,
    <<Num(1), Num(1), Num(1)>>,
    <<Num(0), Num(0), Num(2)>>,
    <<Num(2), Num(1), Num(1), Num(2)>>,
    LineAB,
    <<Word(1)>> }

InitExtract ==
  \E lines \in SeqsUpTo(LinePool, MaxLines) : Start(Files(<<<<TextPage(lines)>>>>))

SpecExtract == InitExtract /\ [][Process]_vars

\* SpecBatch: up to MaxDocs files, each one of these documents: readable with a
\* record, unreadable, unreadable on page 2 after a record on page 1, a blank
\* page then a record, readable without any record, two pages with a record each.
BatchDocs ==
  { <<TextPage(<<LineE1>>)>>,
    <<TextPage(<<LineE2>>)>>,
    <<ErrorPage>>,
    <<TextPage(<<LineE1>>), ErrorPage>>,
    <<BlankPage, TextPage(<<LineE3>>)>>,
    <<TextPage(<<LineE2n>>)>>,
    <<TextPage(<<LineE1>>), TextPage(<<LineE2n, LineAB>>)>> }

InitBatch == \E docs \in SeqsUpTo(BatchDocs, MaxDocs) : Start(Files(docs))

SpecBatch == InitBatch /\ [][Process]_vars

\* SpecAgg: up to MaxDocs files of one page each, the page one of these: one to
\* three students, a student twice on a page, with and without a name, absent,
\* present and then absent.
AggPages ==
  { <<LineE1>>,
    <<LineE1b>>,
    <<LineE1u>>,
    <<LineE1, LineE1b>>,
    <<LineE2>>,
    <<LineE1, LineE2>>,
    <<LineE1, LineE2, LineE3>>,
    <<LineE2n, LineAB>>,
    <<LineE2, LineE2n, LineAB>>,
    <<LineE3>> }

InitAgg ==
  \E pages \in SeqsUpTo(AggPages, MaxDocs) :
    Start(Files([k \in 1..Len(pages) |-> <<TextPage(pages[k])>>]))

SpecAgg == InitAgg /\ [][Process]_vars

\* Spec: the user uploads, replaces and processes files in any order; a file is
\* a page with a student's marks or a page without any student.
MainDocs ==
  { <<TextPage(<<LineE1>>)>>,
    <<TextPage(<<LineE2>>)>>,
    <<TextPage(<<LineAB>>)>> }

Init == Start(<<>>)

Next ==
  \/ \E docs \in SeqsUpTo(MainDocs, MaxDocs) : Upload(Files(docs))
  \/ Process

Spec == Init /\ [][Next]_vars

-----------------------------------------------------------------------------
(* Claims on extract_marks_from_pdf, checked under SpecExtract *)

Done == last = "process"

\* The lines of the only page of the only file of SpecExtract.
PageLines == uploaded[1].pages[1].lines

Bears(i, e) == \E p \in 1..Len(PageLines[i]) : PageLines[i][p] = Enr(e)

OnlyAt(e, i) == \A j \in 1..Len(PageLines) : Bears(j, e) <=> j = i

RecordsFor(e) == SelectSeq(combined_df, LAMBDA r : r.enr = e)

Window(i) == {j \in i..(i + 3) : j <= Len(PageLines)}

TripleAt(line, p) ==
  /\ p >= 1
  /\ p + 2 <= Len(line)
  /\ \A q \in p..(p + 2) : line[q].k = "num" /\ line[q].v \in 0..99

ValidAt(line, p) ==
  /\ TripleAt(line, p)
  /\ line[p].v + line[p + 1].v - line[p + 2].v \in {-1, 0, 1}

\* Some three consecutive small numbers anywhere in the line.
ContainsTriple(line) == \E p \in 1..Len(line) : TripleAt(line, p)

\* Some three consecutive small numbers in the line are within the tolerance.
ContainsValidTriple(line) == \E p \in 1..Len(line) : ValidAt(line, p)

\* The leftmost three consecutive small numbers of the line are within the
\* tolerance.
LeftmostValid(line) ==
  \E p \in 1..Len(line) : ValidAt(line, p) /\ \A q \in 1..(p - 1) : ~TripleAt(line, q)

LeftmostTriple(line) ==
  LET p == CHOOSE p \in 1..Len(line) :
             TripleAt(line, p) /\ \A q \in 1..(p - 1) : ~TripleAt(line, q)
  IN <<line[p].v, line[p + 1].v, line[p + 2].v>>

\* C1: every record the extraction emits is Present with |sectionA + sectionB -
\* total| <= 1 or Absent with sectionA = sectionB = total = 0; and a triple within
\* the tolerance on the identifier's own line is accepted (its Present record
\* is emitted).
C1_RecordInvariant ==
  Done =>
    /\ \A k \in 1..Len(combined_df) :
         LET r == combined_df[k]
         IN \/ r.status = "Present" /\ r.a + r.b - r.total \in {-1, 0, 1}
            \/ r.status = "Absent" /\ r.a = 0 /\ r.b = 0 /\ r.total = 0
    /\ \A i \in 1..Len(PageLines) : \A e \in {1, 2} :
         Bears(i, e) /\ LeftmostValid(PageLines[i]) =>
           \E k \in 1..Len(combined_df) :
             /\ combined_df[k].enr = e
             /\ combined_df[k].status = "Present"
             /\ <<combined_df[k].a, combined_df[k].b, combined_df[k].total>>
                  = LeftmostTriple(PageLines[i])

\* A run that emitted a Present record off by one and an Absent record, from a
\* page that also held a triple off by two in an identifier's window.
C1_Witness ==
  /\ Done
  /\ \E k \in 1..Len(combined_df) :
       combined_df[k].status = "Present"
       /\ combined_df[k].a + combined_df[k].b - combined_df[k].total = 1
  /\ \E k \in 1..Len(combined_df) : combined_df[k].status = "Absent"
  /\ \E i \in 1..Len(PageLines) :
       Bears(i, 1) /\ \E j \in Window(i) : PageLines[j] = <<Num(0), Num(0), Num(2)>>

\* C5: an identifier none of whose lines has a score triple on it or on one of
\* the next three lines gets no Present record, wherever else triples stand.
C5_WindowBound ==
  Done =>
    \A e \in {1, 2} :
      (\A i \in 1..Len(PageLines) :
         Bears(i, e) => \A j \in Window(i) : ~ContainsTriple(PageLines[j]))
      => \A k \in 1..Len(combined_df) :
           ~(combined_df[k].enr = e /\ combined_df[k].status = "Present")

\* An identifier on line i only, no triple on lines i..i+3, a valid triple on
\* line i+4, and no Present record for it after the run.
C5_Witness ==
  /\ Done
  /\ \E i \in 1..Len(PageLines) :
       /\ OnlyAt(1, i)
       /\ i + 4 <= Len(PageLines)
       /\ ContainsValidTriple(PageLines[i + 4])
       /\ \A j \in Window(i) : ~ContainsTriple(PageLines[j])
       /\ \A k \in 1..Len(RecordsFor(1)) : RecordsFor(1)[k].status # "Present"

NumLinesBearing(e) == Cardinality({i \in 1..Len(PageLines) : Bears(i, e)})

\* C6 as claimed: at most one record per identifier-bearing line, and when some
\* valid triple lies in lines i..i+3 of an identifier found on line i only, its
\* single record is the Present one.
C6_Original ==
  Done =>
    \A e \in {1, 2} :
      /\ Len(RecordsFor(e)) <= NumLinesBearing(e)
      /\ \A i \in 1..Len(PageLines) :
           OnlyAt(e, i) /\ (\E j \in Window(i) : ContainsValidTriple(PageLines[j]))
           => Len(RecordsFor(e)) = 1 /\ RecordsFor(e)[1].status = "Present"

\* C6 amended: at most one record per identifier-bearing line, and when the
\* leftmost triple of some line in i..i+3 is valid, the single record of an
\* identifier found on line i only is the Present one, also with 'AB' on
\* line i+1.
C6_Amended ==
  Done =>
    \A e \in {1, 2} :
      /\ Len(RecordsFor(e)) <= NumLinesBearing(e)
      /\ \A i \in 1..Len(PageLines) :
           OnlyAt(e, i) /\ (\E j \in Window(i) : LeftmostValid(PageLines[j]))
           => Len(RecordsFor(e)) = 1 /\ RecordsFor(e)[1].status = "Present"

\* An identifier on line i only, 'AB' on line i+1, a valid triple on a later line
\* of the window, and exactly one record for it, the Present one.
C6_Witness ==
  /\ Done
  /\ \E i \in 1..Len(PageLines) :
       /\ OnlyAt(1, i)
       /\ i + 1 <= Len(PageLines)
       /\ \E p \in 1..Len(PageLines[i + 1]) : PageLines[i + 1][p] = Ab
       /\ \E j \in Window(i) : j > i + 1 /\ LeftmostValid(PageLines[j])
       /\ Len(RecordsFor(1)) = 1
       /\ RecordsFor(1)[1].status = "Present"

\* The first line of the window of line i that contains a triple, if any.
FirstWithTriple(i) ==
  {j \in Window(i) : ContainsTriple(PageLines[j])
                     /\ \A h \in Window(i) : h < j => ~ContainsTriple(PageLines[h])}

\* The first line of the window of line i whose leftmost triple is valid, if any.
FirstAccepted(i) ==
  {j \in Window(i) : LeftmostValid(PageLines[j])
                     /\ \A h \in Window(i) : h < j => ~LeftmostValid(PageLines[h])}

-----------------------------------------------------------------------------
(* Claim on process_multiple_pdfs, checked under SpecBatch *)

Fails(pdf_file) == \E p \in 1..Len(pdf_file.pages) : pdf_file.pages[p].kind = "error"

RECURSIVE RecordsOfPages(_, _)
RecordsOfPages(pdf_file, p) ==
  IF p > Len(pdf_file.pages) THEN <<>>
  ELSE ExtractLines(pdf_file.pages[p].lines, 1, pdf_file.name)
       \o RecordsOfPages(pdf_file, p + 1)

RECURSIVE RecordsOfReadable(_, _)
RecordsOfReadable(files, k) ==
  IF k > Len(files) THEN <<>>
  ELSE (IF Fails(files[k]) THEN <<>> ELSE RecordsOfPages(files[k], 1))
       \o RecordsOfReadable(files, k + 1)

\* C2: the batch returns exactly the records of the files that did not fail to
\* be read, in upload order; a file that fails on any page contributes nothing,
\* and the files after it are still processed.
C2_BatchConcat == Done => combined_df = RecordsOfReadable(uploaded, 1)

\* Three files, the second failing on its second page after a record on its
\* first: the batch returns records of files 1 and 3 and none of file 2.
C2_Witness ==
  /\ Done
  /\ Len(uploaded) = 3
  /\ Len(uploaded[2].pages) = 2
  /\ uploaded[2].pages[2].kind = "error"
  /\ ExtractLines(uploaded[2].pages[1].lines, 1, 2) # <<>>
  /\ \E k \in 1..Len(combined_df) : combined_df[k].src = 1
  /\ \E k \in 1..Len(combined_df) : combined_df[k].src = 3
  /\ \A k \in 1..Len(combined_df) : combined_df[k].src # 2

-----------------------------------------------------------------------------
(* Claims on the two views, checked under SpecAgg *)

Shown == Done /\ shown.visible

NumAbove(rows, k) ==
  Cardinality({j \in 1..Len(rows) : rows[j].cumulative_total > rows[k].cumulative_total})

\* C3: in the cumulative view and in the exam-wise view, every row's rank is 1 +
\* the number of rows whose cumulativeTotal is strictly greater.
C3_MinRanking ==
  Shown =>
    /\ \A k \in 1..Len(shown.rankings) :
         shown.rankings[k].rank = 1 + NumAbove(shown.rankings, k)
    /\ \A k \in 1..Len(shown.exam_wise) :
         shown.exam_wise[k].rank = 1 + NumAbove(shown.exam_wise, k)

TieThenGap(rows) ==
  \E i, j, k \in 1..Len(rows) :
    /\ i # j
    /\ rows[i].rank = 1 /\ rows[j].rank = 1
    /\ rows[i].cumulative_total = rows[j].cumulative_total
    /\ rows[k].rank = 3

\* Both views show two rows tied at rank 1 and the next row at rank 3.
C3_Witness == Shown /\ TieThenGap(shown.rankings) /\ TieThenGap(shown.exam_wise)

Ids(data) == {data[k].enr : k \in 1..Len(data)}

RecIdx(data, e) == {k \in 1..Len(data) : data[k].enr = e}

RECURSIVE SumTotalsAt(_, _)
SumTotalsAt(data, K) ==
  IF K = {} THEN 0
  ELSE LET k == CHOOSE x \in K : TRUE
       IN data[k].total + SumTotalsAt(data, K \ {k})

\* One entry per identifier, with the sum of its totals and the number of its
\* distinct source documents.
EntriesMatch(rows, data) ==
  /\ Len(rows) = Cardinality(Ids(data))
  /\ \A e \in Ids(data) : \E k \in 1..Len(rows) :
       /\ rows[k].enr = e
       /\ rows[k].cumulative_total = SumTotalsAt(data, RecIdx(data, e))
       /\ rows[k].exam_count = Cardinality({data[j].src : j \in RecIdx(data, e)})

\* C4 as claimed: one entry per identifier, cumulativeTotal the sum of its
\* totals, examCount its number of distinct source documents, and averagePerExam
\* exactly cumulativeTotal / examCount (average_per_exam is in hundredths).
C4_Original ==
  Shown =>
    /\ EntriesMatch(shown.rankings, shown.records)
    /\ \A k \in 1..Len(shown.rankings) :
         shown.rankings[k].average_per_exam * shown.rankings[k].exam_count
           = 100 * shown.rankings[k].cumulative_total

\* C4 amended: the same, with averagePerExam the quotient rounded to 2 decimal
\* places (the hundredth nearest to cumulativeTotal / examCount).
C4_Amended ==
  Shown =>
    /\ EntriesMatch(shown.rankings, shown.records)
    /\ \A k \in 1..Len(shown.rankings) :
         LET r == shown.rankings[k]
             d == r.average_per_exam * r.exam_count - 100 * r.cumulative_total
         IN 2 * d <= r.exam_count /\ -2 * d <= r.exam_count

\* An identifier with records in three documents whose total is no multiple of
\* 3, and an identifier with two records from one document.
C4_Witness ==
  /\ Shown
  /\ \E k \in 1..Len(shown.rankings) :
       shown.rankings[k].exam_count = 3 /\ shown.rankings[k].cumulative_total % 3 # 0
  /\ \E k \in 1..Len(shown.rankings) :
       shown.rankings[k].exam_count
         < Cardinality(RecIdx(shown.records, shown.rankings[k].enr))

\* C7: in the exam-wise view a student without a record in document B has a
\* missing value in B's column, a student with an Absent record in B has 0
\* there, and the row's cumulativeTotal is the sum of the columns present.
C7_ExamWiseCells ==
  Shown =>
    \A k \in 1..Len(shown.exam_wise) :
      LET row == shown.exam_wise[k]
          recsIn(B) == {j \in RecIdx(shown.records, row.enr) : shown.records[j].src = B}
      IN /\ \A B \in DOMAIN row.exams :
              /\ recsIn(B) = {} => row.exams[B] = NaN
              /\ (\E j \in recsIn(B) : shown.records[j].status = "Absent")
                   => row.exams[B] = 0
         /\ row.cumulative_total
              = SumCells(row.exams, {B \in DOMAIN row.exams : row.exams[B] # NaN})

\* C10: the exam-wise view has exactly one row per identifier, with the
\* cumulativeTotal and the rank of that identifier in the cumulative view.
C10_ViewsAgree ==
  Shown =>
    /\ Len(shown.exam_wise) = Cardinality(Ids(shown.records))
    /\ \A k \in 1..Len(shown.exam_wise) : \E j \in 1..Len(shown.rankings) :
         /\ shown.rankings[j].enr = shown.exam_wise[k].enr
         /\ shown.rankings[j].cumulative_total = shown.exam_wise[k].cumulative_total
         /\ shown.rankings[j].rank = shown.exam_wise[k].rank

-----------------------------------------------------------------------------
(* Claim on main, checked under Spec *)

\* C9: after a Process run, what is displayed is derived from that run's records
\* only: nothing when the run extracted no record, its records and their two
\* views otherwise.
C9_FreshResults ==
  Done => shown = IF combined_df = <<>> THEN NoDisplay ELSE Display(combined_df)

=============================================================================
